---- MODULE Spec2Model ----
(***************************************************************************)
(* A model of src/FoodFactsScrap.py: the Open Food Facts snack scraper.    *)
(*                                                                         *)
(* Python strings are sequences of one-character strings, so that the      *)
(* substring tests, str.replace, str.strip, str.lower and the regular      *)
(* expressions of the source are computed character by character.          *)
(* Optional[T] is a sequence of length 0 (None) or 1 (a value).            *)
(* A float is a decimal [num, scale] = num / 10^scale without trailing     *)
(* zeros, so 2.380 and 2.38 are the same value and 2380.0 is another.      *)
(***************************************************************************)
EXTENDS Integers, Sequences, FiniteSets, TLC

\* ------------------------------------------------------------------------
\* Optional values
\* ------------------------------------------------------------------------
None == <<>>
Some(x) == <<x>>
IsNone(o) == Len(o) = 0
Val(o) == o[1]

\* ------------------------------------------------------------------------
\* Characters and strings
\* ------------------------------------------------------------------------
Digits == {"0", "1", "2", "3", "4", "5", "6", "7", "8", "9"}

IsDigit(c) == c \in Digits

DigitVal(c) ==
    CASE c = "0" -> 0 [] c = "1" -> 1 [] c = "2" -> 2 [] c = "3" -> 3
      [] c = "4" -> 4 [] c = "5" -> 5 [] c = "6" -> 6 [] c = "7" -> 7
      [] c = "8" -> 8 [] c = "9" -> 9

\* The whitespace the texts of this model hold: str.strip and \s match it.
IsSpace(c) == c = " "

\* str.lower on one character.
LowerChar(c) ==
    CASE c = "A" -> "a" [] c = "B" -> "b" [] c = "C" -> "c" [] c = "D" -> "d"
      [] c = "E" -> "e" [] c = "F" -> "f" [] c = "G" -> "g" [] c = "H" -> "h"
      [] c = "I" -> "i" [] c = "J" -> "j" [] c = "K" -> "k" [] c = "L" -> "l"
      [] c = "M" -> "m" [] c = "N" -> "n" [] c = "O" -> "o" [] c = "P" -> "p"
      [] c = "Q" -> "q" [] c = "R" -> "r" [] c = "S" -> "s" [] c = "T" -> "t"
      [] c = "U" -> "u" [] c = "V" -> "v" [] c = "W" -> "w" [] c = "X" -> "x"
      [] c = "Y" -> "y" [] c = "Z" -> "z" [] OTHER -> c

Lower(s) == [i \in 1..Len(s) |-> LowerChar(s[i])]

\* s[i..] starts with p (1-based i).
StartsAt(s, p, i) ==
    /\ i >= 1
    /\ i + Len(p) - 1 <= Len(s)
    /\ \A k \in 1..Len(p) : s[i + k - 1] = p[k]

\* Python's `p in s`.
Contains(s, p) == \E i \in 1..(Len(s) + 1) : StartsAt(s, p, i)

\* str.strip(): leading and trailing whitespace removed.
Strip(s) ==
    LET keep == {i \in 1..Len(s) : ~IsSpace(s[i])}
    IN  IF keep = {} THEN <<>>
        ELSE LET lo == CHOOSE i \in keep : \A j \in keep : i <= j
                 hi == CHOOSE i \in keep : \A j \in keep : i >= j
             IN  SubSeq(s, lo, hi)

\* str.replace(old, new): every non-overlapping occurrence, left to right
\* (old is not empty).
RECURSIVE ReplaceFrom(_, _, _, _)
ReplaceFrom(s, old, new, i) ==
    IF i > Len(s) THEN <<>>
    ELSE IF StartsAt(s, old, i)
         THEN new \o ReplaceFrom(s, old, new, i + Len(old))
         ELSE <<s[i]>> \o ReplaceFrom(s, old, new, i + 1)

Replace(s, old, new) == ReplaceFrom(s, old, new, 1)

\* The least element of a non-empty set of integers.
Min(S) == CHOOSE x \in S : \A y \in S : x <= y

\* The end of the longest run of characters of class `cls` that starts at i:
\* the index of the character after it (i itself when the run is empty).
RECURSIVE RunEnd(_, _, _)
RunEnd(s, cls, i) ==
    IF i <= Len(s) /\ s[i] \in cls THEN RunEnd(s, cls, i + 1) ELSE i

\* ------------------------------------------------------------------------
\* Floats
\* ------------------------------------------------------------------------
RECURSIVE Pow10(_)
Pow10(n) == IF n = 0 THEN 1 ELSE 10 * Pow10(n - 1)

RECURSIVE Normal(_, _)
Normal(num, scale) ==
    IF scale > 0 /\ num % 10 = 0 THEN Normal(num \div 10, scale - 1)
    ELSE [num |-> num, scale |-> scale]

\* The float num / 10^scale.
Float(num, scale) == Normal(num, scale)

\* The float of an integer.
IntFloat(n) == Float(n, 0)

RECURSIVE DigitsValue(_)
DigitsValue(ds) ==
    IF Len(ds) = 0 THEN 0
    ELSE 10 * DigitsValue(SubSeq(ds, 1, Len(ds) - 1)) + DigitVal(ds[Len(ds)])

\* float(s) for the strings the source hands it: an optional sign, digits and
\* an optional fraction after a "."; any other string raises ValueError,
\* which is None here (the caller's `except ValueError: return None`).
PyFloat(s) ==
    LET signed == Len(s) >= 1 /\ s[1] \in {"+", "-"}
        d0 == IF signed THEN 2 ELSE 1
        e1 == RunEnd(s, Digits, d0)
        hasFrac == e1 <= Len(s) /\ s[e1] = "."
        e2 == IF hasFrac THEN RunEnd(s, Digits, e1 + 1) ELSE e1
        ip == SubSeq(s, d0, e1 - 1)
        fp == IF hasFrac THEN SubSeq(s, e1 + 1, e2 - 1) ELSE <<>>
        mag == DigitsValue(ip) * Pow10(Len(fp)) + DigitsValue(fp)
    IN  IF e2 = Len(s) + 1 /\ Len(ip) + Len(fp) >= 1
        THEN Some(Float(IF signed /\ s[1] = "-" THEN 0 - mag ELSE mag, Len(fp)))
        ELSE None

\* ------------------------------------------------------------------------
\* _parse_float and _parse_energy
\* ------------------------------------------------------------------------

\* re.search(r"([-+]?[0-9]+(?:[.,][0-9]+)?)", text): the leftmost match, as
\* [start, stop) or None.  A match starts at a digit, or at a sign directly
\* followed by a digit; the digits and the optional fraction are greedy.
FloatPatternSearch(text) ==
    LET starts == {i \in 1..Len(text) :
                      \/ IsDigit(text[i])
                      \/ /\ text[i] \in {"+", "-"}
                         /\ i + 1 <= Len(text)
                         /\ IsDigit(text[i + 1])}
    IN  IF starts = {} THEN None
        ELSE LET i == Min(starts)
                 d0 == IF IsDigit(text[i]) THEN i ELSE i + 1
                 e1 == RunEnd(text, Digits, d0)
                 frac == /\ e1 + 1 <= Len(text)
                         /\ text[e1] \in {".", ","}
                         /\ IsDigit(text[e1 + 1])
                 e2 == IF frac THEN RunEnd(text, Digits, e1 + 1) ELSE e1
             IN  Some([start |-> i, stop |-> e2])

\* _parse_float: the first number of the text, a comma read as the decimal
\* separator.
_parse_float(text) ==
    IF Len(text) = 0 THEN None
    ELSE LET m == FloatPatternSearch(text)
         IN  IF IsNone(m) THEN None
             ELSE PyFloat(Replace(SubSeq(text, Val(m).start, Val(m).stop - 1),
                                  <<",">>, <<".">>))

\* k[jJ]
KjAt(text, w) ==
    /\ w + 1 <= Len(text)
    /\ text[w] = "k"
    /\ text[w + 1] \in {"j", "J"}

\* kcal under re.I
KcalAt(text, w) == StartsAt(Lower(text), <<"k", "c", "a", "l">>, w)

\* The unit suffix ("kj" or "kcal") starts at w.
UnitAt(text, w, unit) ==
    IF unit = "kj" THEN KjAt(text, w) ELSE KcalAt(text, w)

\* re.search(r"([0-9][0-9.,]*)\s*<unit>", text): group 1 of the leftmost
\* match, or None.  The run [0-9.,]* and the run \s* are greedy, and giving
\* characters back never helps: the character after a shorter run is in the
\* run's class, so it is neither whitespace nor the unit's first letter.
QuantitySearch(text, unit) ==
    LET NumEnd(i) == RunEnd(text, Digits \cup {".", ","}, i + 1)
        UnitPos(i) == RunEnd(text, {" "}, NumEnd(i))
        starts == {i \in 1..Len(text) :
                      IsDigit(text[i]) /\ UnitAt(text, UnitPos(i), unit)}
    IN  IF starts = {} THEN None
        ELSE LET i == Min(starts) IN Some(SubSeq(text, i, NumEnd(i) - 1))

\* _parse_energy: (kj, kcal), each None or a float.
_parse_energy(text) ==
    IF Len(text) = 0 THEN <<None, None>>
    ELSE LET m_kj == QuantitySearch(text, "kj")
             m_kcal == QuantitySearch(text, "kcal")
             kj == IF IsNone(m_kj) THEN None ELSE _parse_float(Val(m_kj))
             kcal == IF IsNone(m_kcal) THEN None ELSE _parse_float(Val(m_kcal))
         IN  <<kj, kcal>>

\* ------------------------------------------------------------------------
\* String literals of the status rules
\* ------------------------------------------------------------------------
\* "unknown"
S_unknown == <<"u", "n", "k", "n", "o", "w", "n">>

\* "yes"
S_yes == <<"y", "e", "s">>

\* "no"
S_no == <<"n", "o">>

\* "non-vegetarian"
S_non_vegetarian == <<"n", "o", "n", "-", "v", "e", "g", "e", "t", "a", "r", "i", "a", "n">>

\* "not vegetarian"
S_not_vegetarian == <<"n", "o", "t", " ", "v", "e", "g", "e", "t", "a", "r", "i", "a", "n">>

\* "non-vegan"
S_non_vegan == <<"n", "o", "n", "-", "v", "e", "g", "a", "n">>

\* "not vegan"
S_not_vegan == <<"n", "o", "t", " ", "v", "e", "g", "a", "n">>

\* "vegetarian"
S_vegetarian == <<"v", "e", "g", "e", "t", "a", "r", "i", "a", "n">>

\* "vegan"
S_vegan == <<"v", "e", "g", "a", "n">>

\* "Vegetarian status"
S_Vegetarian_status == <<"V", "e", "g", "e", "t", "a", "r", "i", "a", "n", " ", "s", "t", "a", "t", "u", "s">>

\* "Vegan status"
S_Vegan_status == <<"V", "e", "g", "a", "n", " ", "s", "t", "a", "t", "u", "s">>

\* "vegan:"
S_vegan_colon == <<"v", "e", "g", "a", "n", ":">>

\* "vegetarian:"
S_vegetarian_colon == <<"v", "e", "g", "e", "t", "a", "r", "i", "a", "n", ":">>

\* ------------------------------------------------------------------------
\* _normalize_status and _parse_veg_flags
\* ------------------------------------------------------------------------

\* _normalize_status returning the negated word found instead of "no".
_normalize_status_keeps_word(text) ==
    LET t == Lower(Strip(text))
    IN  IF Contains(t, S_unknown) THEN S_unknown
        ELSE IF Contains(t, S_non_vegetarian) \/ Contains(t, S_not_vegetarian)
             THEN S_non_vegetarian
        ELSE IF Contains(t, S_non_vegan) \/ Contains(t, S_not_vegan)
             THEN S_non_vegan
        ELSE IF Contains(t, S_vegetarian) \/ Contains(t, S_vegan) THEN S_yes
        ELSE Strip(text)

\* _normalize_status (lines 353-363): the recognised words are looked up in
\* the stripped, lower-cased text; a text with none of them is returned
\* stripped.
_normalize_status(text) ==
    LET t == Lower(Strip(text))
    IN  IF Contains(t, S_unknown) THEN S_unknown
        ELSE IF Contains(t, S_non_vegetarian) \/ Contains(t, S_not_vegetarian)
             THEN S_no
        ELSE IF Contains(t, S_non_vegan) \/ Contains(t, S_not_vegan)
             THEN S_no
        ELSE IF Contains(t, S_vegetarian) \/ Contains(t, S_vegan) THEN S_yes
        ELSE Strip(text)

\* A page, as _parse_veg_flags reads it: its h4 elements in document order,
\* each with the analysis panel that holds it ("vegan", "vegetarian" or
\* "other") and its text as get_text(" ", strip=True) gives it, and the text
\* of #ordered_ingredients_list (None when the page has no such element).

\* soup.select_one("#panel_ingredients_analysis_en-<panel> h4"): the text of
\* the first h4 of the panel, or None.
SelectPanelH4(doc, panel) ==
    LET hits == {i \in 1..Len(doc.h4s) : doc.h4s[i].panel = panel}
    IN  IF hits = {} THEN None ELSE Some(doc.h4s[Min(hits)].text)

\* Stage 1 (lines 370-376): the dedicated panel headings.
VegPanels(doc) ==
    LET vegan_panel == SelectPanelH4(doc, "vegan")
        vegetarian_panel == SelectPanelH4(doc, "vegetarian")
    IN  [veg |-> IF IsNone(vegetarian_panel) THEN None
                 ELSE Some(_normalize_status(Val(vegetarian_panel))),
         vegan |-> IF IsNone(vegan_panel) THEN None
                   ELSE Some(_normalize_status(Val(vegan_panel)))]

\* The loop of lines 379-384 from the i-th h4 on.
RECURSIVE VegHeadingScan(_, _, _)
VegHeadingScan(h4s, i, st) ==
    IF i > Len(h4s) THEN st
    ELSE LET t == h4s[i].text
         IN  IF Contains(t, S_Vegetarian_status) /\ IsNone(st.veg)
             THEN VegHeadingScan(h4s, i + 1,
                    [st EXCEPT !.veg =
                        Some(_normalize_status(Replace(t, S_Vegetarian_status, <<>>)))])
             ELSE IF Contains(t, S_Vegan_status) /\ IsNone(st.vegan)
             THEN VegHeadingScan(h4s, i + 1,
                    [st EXCEPT !.vegan =
                        Some(_normalize_status(Replace(t, S_Vegan_status, <<>>)))])
             ELSE VegHeadingScan(h4s, i + 1, st)

\* Stage 2 (lines 378-384): the scan of every h4 of the page.
VegHeadings(doc, st) ==
    IF IsNone(st.veg) \/ IsNone(st.vegan)
    THEN VegHeadingScan(doc.h4s, 1, st)
    ELSE st

\* re.search(key + r"\s*(yes|no|unknown)", text): the leftmost match as
\* [whole |-> group(0), value |-> group(1)], or None.
StatusSearch(text, key) ==
    LET ValuePos(i) == RunEnd(text, {" "}, i + Len(key))
        ValueAt(w) == IF StartsAt(text, S_yes, w) THEN Some(S_yes)
                      ELSE IF StartsAt(text, S_no, w) THEN Some(S_no)
                      ELSE IF StartsAt(text, S_unknown, w) THEN Some(S_unknown)
                      ELSE None
        starts == {i \in 1..Len(text) :
                      StartsAt(text, key, i) /\ ~IsNone(ValueAt(ValuePos(i)))}
    IN  IF starts = {} THEN None
        ELSE LET i == Min(starts)
                 v == Val(ValueAt(ValuePos(i)))
             IN  Some([whole |-> SubSeq(text, i, ValuePos(i) + Len(v) - 1),
                       value |-> v])

\* Stage 3 (lines 386-397): the ordered ingredients list.  The source
\* normalises m.group(0), the whole match.
VegOrdered(doc, st) ==
    IF (IsNone(st.veg) \/ IsNone(st.vegan)) /\ ~IsNone(doc.ordered)
    THEN LET text == Lower(Val(doc.ordered))
             m_vegan == StatusSearch(text, S_vegan_colon)
             m_veg == StatusSearch(text, S_vegetarian_colon)
         IN  [veg |-> IF IsNone(st.veg) /\ ~IsNone(m_veg)
                      THEN Some(_normalize_status(Val(m_veg).whole))
                      ELSE st.veg,
              vegan |-> IF IsNone(st.vegan) /\ ~IsNone(m_vegan)
                        THEN Some(_normalize_status(Val(m_vegan).whole))
                        ELSE st.vegan]
    ELSE st

\* _parse_veg_flags: (vegetarian_status, vegan_status).
_parse_veg_flags(doc) ==
    LET st == VegOrdered(doc, VegHeadings(doc, VegPanels(doc)))
    IN  <<st.veg, st.vegan>>

\* ------------------------------------------------------------------------
\* String literals of the nutrition table and of the image name
\* ------------------------------------------------------------------------
\* "energy"
S_energy == <<"e", "n", "e", "r", "g", "y">>

\* "fat"
S_fat == <<"f", "a", "t">>

\* "saturated fat"
S_saturated_fat == <<"s", "a", "t", "u", "r", "a", "t", "e", "d", " ", "f", "a", "t">>

\* "carbohydrates"
S_carbohydrates == <<"c", "a", "r", "b", "o", "h", "y", "d", "r", "a", "t", "e", "s">>

\* "sugars"
S_sugars == <<"s", "u", "g", "a", "r", "s">>

\* "fiber"
S_fiber == <<"f", "i", "b", "e", "r">>

\* "proteins"
S_proteins == <<"p", "r", "o", "t", "e", "i", "n", "s">>

\* "protein"
S_protein == <<"p", "r", "o", "t", "e", "i", "n">>

\* "salt"
S_salt == <<"s", "a", "l", "t">>

\* "image"
S_image == <<"i", "m", "a", "g", "e">>

\* ------------------------------------------------------------------------
\* ProductRecord
\* ------------------------------------------------------------------------

\* The fields of ProductRecord in declaration order (lines 30-76).
FieldNames ==
    <<"url", "product_name", "barcode", "brand", "quantity", "serving_size",
      "nutriscore_letter", "nova_group",
      "ingredients_text", "allergens", "traces",
      "energy_kj_100g", "energy_kcal_100g", "fat_100g", "saturated_fat_100g",
      "carbohydrates_100g", "sugars_100g", "fiber_100g", "proteins_100g",
      "salt_100g",
      "main_image_url", "categories",
      "contains_palm_oil", "vegetarian_status", "vegan_status",
      "nutrient_level_fat", "nutrient_level_saturated_fat",
      "nutrient_level_sugars", "nutrient_level_salt",
      "additives",
      "packaging", "stores", "countries", "origins", "manufacturing_places",
      "ecoscore_grade", "ecoscore_score", "carbon_footprint_100g">>

FieldSet == {FieldNames[i] : i \in 1..Len(FieldNames)}

\* default_factory=list
EmptyList == <<>>

\* ProductRecord(url=url): every other field None, additives the empty list.
ProductRecord(url) ==
    [f \in FieldSet |->
        IF f = "url" THEN url
        ELSE IF f = "additives" THEN EmptyList
        ELSE None]

\* ------------------------------------------------------------------------
\* _parse_nutrition_table
\* ------------------------------------------------------------------------

\* The branch of lines 241-258 a lower-cased row label takes: "energy", the
\* field the row assigns, or "" when no branch matches.
NutrientOfLabel(label) ==
    IF Contains(label, S_energy) THEN "energy"
    ELSE IF label = S_fat THEN "fat_100g"
    ELSE IF Contains(label, S_saturated_fat) THEN "saturated_fat_100g"
    ELSE IF label = S_carbohydrates THEN "carbohydrates_100g"
    ELSE IF Contains(label, S_sugars) THEN "sugars_100g"
    ELSE IF Contains(label, S_fiber) THEN "fiber_100g"
    ELSE IF Contains(label, S_proteins) \/ label = S_protein THEN "proteins_100g"
    ELSE IF Contains(label, S_salt) THEN "salt_100g"
    ELSE ""

\* Lines 241-258 for one row: the field the label selects is assigned, also
\* when the parsed value is None.
NutritionRow(record, nutrient, value_100g) ==
    IF nutrient = "energy"
    THEN [record EXCEPT !["energy_kj_100g"] = _parse_energy(value_100g)[1],
                        !["energy_kcal_100g"] = _parse_energy(value_100g)[2]]
    ELSE IF nutrient = "" THEN record
    ELSE [record EXCEPT ![nutrient] = _parse_float(value_100g)]

\* The rows of the "Nutrition facts" table from the i-th on; a row is the
\* sequence of the texts of its td cells (lines 234-239).
RECURSIVE NutritionRows(_, _, _)
NutritionRows(rows, i, record) ==
    IF i > Len(rows) THEN record
    ELSE IF Len(rows[i]) < 2 THEN NutritionRows(rows, i + 1, record)
    ELSE NutritionRows(rows, i + 1,
                       NutritionRow(record, NutrientOfLabel(Lower(rows[i][1])),
                                    rows[i][2]))

\* One iteration of the loop of line 234: the record after row i.
NutritionStep(rows, i, record) == NutritionRows(SubSeq(rows, i, i), 1, record)

\* The fields the branches of lines 241-258 assign for row i.
NutritionAssigned(rows, i) ==
    IF Len(rows[i]) < 2 THEN {}
    ELSE IF NutrientOfLabel(Lower(rows[i][1])) = "energy"
    THEN {"energy_kj_100g", "energy_kcal_100g"}
    ELSE IF NutrientOfLabel(Lower(rows[i][1])) = "" THEN {}
    ELSE {NutrientOfLabel(Lower(rows[i][1]))}

\* _parse_nutrition_table: table is None when the page has no table with
\* aria-label "Nutrition facts".
_parse_nutrition_table(table, record) ==
    IF IsNone(table) THEN record ELSE NutritionRows(Val(table), 1, record)

\* ------------------------------------------------------------------------
\* _download_image
\* ------------------------------------------------------------------------

\* The chunks resp.iter_content yields for an image body.
BodyChunks == 2

\* [A-Za-z0-9_.-]
SafeChars ==
    Digits \cup {"_", ".", "-"}
    \cup {"a", "b", "c", "d", "e", "f", "g", "h", "i", "j", "k", "l", "m"}
    \cup {"n", "o", "p", "q", "r", "s", "t", "u", "v", "w", "x", "y", "z"}
    \cup {"A", "B", "C", "D", "E", "F", "G", "H", "I", "J", "K", "L", "M"}
    \cup {"N", "O", "P", "Q", "R", "S", "T", "U", "V", "W", "X", "Y", "Z"}

\* re.sub(r"[^A-Za-z0-9_.-]+", "_", s): every run of other characters
\* becomes one "_".
RECURSIVE Sanitize(_, _)
Sanitize(s, i) ==
    IF i > Len(s) THEN <<>>
    ELSE IF s[i] \in SafeChars THEN <<s[i]>> \o Sanitize(s, i + 1)
    ELSE IF i > 1 /\ s[i - 1] \notin SafeChars THEN Sanitize(s, i + 1)
    ELSE <<"_">> \o Sanitize(s, i + 1)

\* An image URL is the record of what urlparse and os.path.splitext give
\* for it: wellformed (urlparse raises ValueError otherwise) and the
\* extension of its path ("" when the path has none).
\* dest_path (lines 528-531).
DestPath(url, dest_dir, base_name) ==
    [dir |-> dest_dir,
     base |-> Sanitize(IF Len(base_name) = 0 THEN S_image ELSE base_name, 1),
     ext |-> IF url.ext = "" THEN ".jpg" ELSE url.ext]

\* The steps of _download_image that the environment can fail.
DownloadSteps == {"makedirs", "get", "status", "open", "write"}

\* What the environment does during one call: the step it fails ("none":
\* no step) and, for a failed write, the chunks written before it.
DownloadEnvs ==
    [fail : DownloadSteps \cup {"none"}, written : {0}]
    \cup [fail : {"write"}, written : 0..(BodyChunks - 1)]

\* The file system: a function from the paths of the files that exist to
\* the number of body chunks each holds.
WriteFile(fs, path, chunks) ==
    [q \in (DOMAIN fs) \cup {path} |-> IF q = path THEN chunks ELSE fs[q]]

\* _download_image: [raised, ret, files].  os.makedirs and urlparse run
\* before the try block (lines 526-528); an existing file is returned as it
\* is (lines 533-534); inside the try block every exception gives None, and
\* open(dest_path, "wb") has created or truncated the file by then.
_download_image(url, dest_dir, base_name, env, fs) ==
    LET dest_path == DestPath(url, dest_dir, base_name)
    IN  IF env.fail = "makedirs" THEN [raised |-> TRUE, ret |-> None, files |-> fs]
        ELSE IF ~url.wellformed
        THEN [raised |-> TRUE, ret |-> None, files |-> fs]
        ELSE IF dest_path \in DOMAIN fs
        THEN [raised |-> FALSE, ret |-> Some(dest_path), files |-> fs]
        ELSE IF env.fail \in {"get", "status", "open"}
        THEN [raised |-> FALSE, ret |-> None, files |-> fs]
        ELSE IF env.fail = "write"
        THEN [raised |-> FALSE, ret |-> None,
              files |-> WriteFile(fs, dest_path, env.written)]
        ELSE [raised |-> FALSE, ret |-> Some(dest_path),
              files |-> WriteFile(fs, dest_path, BodyChunks)]

\* ------------------------------------------------------------------------
\* scrape_product
\* ------------------------------------------------------------------------

\* A product page is the record of the elements the extraction rules look
\* up.  The rules no property here is about are represented by the value
\* they extract (None: the element is missing); the headings, the ordered
\* ingredients list and the nutrition table are held as texts.

\* _parse_ecoscore_and_carbon returns three values (line 522).
_parse_ecoscore_and_carbon(doc) == <<doc.ecoscore_grade, doc.ecoscore_score, doc.carbon>>

\* `a, b = t`: None stands for ValueError (t does not hold two values).
Unpack2(t) == IF Len(t) = 2 THEN Some(t) ELSE None

\* Python's `x or y` on an Optional[str].
OrElse(x, y) == IF IsNone(x) \/ Len(Val(x)) = 0 THEN y ELSE Val(x)

\* Lines 551-590: the record before the eco-score rule.
ParsedRecord(url, doc) ==
    LET veg == _parse_veg_flags(doc)
        r1 == [ProductRecord(url) EXCEPT
                 !["product_name"] = doc.product_name,
                 !["barcode"] = doc.barcode,
                 !["brand"] = doc.brand,
                 !["quantity"] = doc.quantity,
                 !["packaging"] = doc.packaging,
                 !["stores"] = doc.stores,
                 !["countries"] = doc.countries,
                 !["origins"] = doc.origins,
                 !["manufacturing_places"] = doc.manufacturing_places,
                 !["serving_size"] = doc.serving_size,
                 !["ingredients_text"] = doc.ingredients_text,
                 !["allergens"] = doc.allergens,
                 !["traces"] = doc.traces]
        r2 == _parse_nutrition_table(doc.table, r1)
    IN  [r2 EXCEPT
           !["nutriscore_letter"] = doc.nutriscore_letter,
           !["nova_group"] = doc.nova_group,
           !["main_image_url"] = doc.main_image_url,
           !["categories"] = doc.categories,
           !["contains_palm_oil"] = doc.contains_palm_oil,
           !["vegetarian_status"] = veg[1],
           !["vegan_status"] = veg[2],
           !["nutrient_level_fat"] = doc.nutrient_level_fat,
           !["nutrient_level_saturated_fat"] = doc.nutrient_level_saturated_fat,
           !["nutrient_level_sugars"] = doc.nutrient_level_sugars,
           !["nutrient_level_salt"] = doc.nutrient_level_salt,
           !["additives"] = doc.additives]

\* Lines 596-600: the image download and the return.  An exception of
\* _download_image leaves scrape_product.
ScrapeReturn(rec, dl) ==
    IF dl.raised
    THEN [raised |-> TRUE, record |-> None, files |-> dl.files]
    ELSE [raised |-> FALSE, record |-> Some(rec), files |-> dl.files]

\* Line 597.
ImageBaseName(rec) ==
    OrElse(rec["barcode"],
           Replace(OrElse(rec["product_name"], S_image), <<" ">>, <<"_">>))

ScrapeImage(rec, download_images, images_dir, env, fs) ==
    IF download_images /\ ~IsNone(rec["main_image_url"])
    THEN ScrapeReturn(rec, _download_image(Val(rec["main_image_url"]),
                                           images_dir, ImageBaseName(rec),
                                           env.dl, fs))
    ELSE [raised |-> FALSE, record |-> Some(rec), files |-> fs]

\* Lines 592-594: eco is the unpacked pair, None when the unpacking raises.
ScrapeEcoscore(record, eco, download_images, images_dir, env, fs) ==
    IF IsNone(eco)
    THEN [raised |-> TRUE, record |-> None, files |-> fs]
    ELSE ScrapeImage([record EXCEPT
                        !["ecoscore_grade"] = Val(eco)[1],
                        !["carbon_footprint_100g"] = Val(eco)[2]],
                     download_images, images_dir, env, fs)

\* scrape_product: [raised, record, files].  env.page is None when _get_soup
\* raises and the fetched page otherwise; env.dl is what the environment
\* does during the image download.  Line 592 unpacks the three values of
\* _parse_ecoscore_and_carbon into two names.
scrape_product(url, download_images, images_dir, env, fs) ==
    IF IsNone(env.page)
    THEN [raised |-> TRUE, record |-> None, files |-> fs]
    ELSE ScrapeEcoscore(ParsedRecord(url, Val(env.page)),
                        Unpack2(_parse_ecoscore_and_carbon(Val(env.page))),
                        download_images, images_dir, env, fs)

\* ------------------------------------------------------------------------
\* _fetch_json_search_page
\* ------------------------------------------------------------------------

\* "https://world.openfoodfacts.org/product/"
BASE_PRODUCT_URL == "https://world.openfoodfacts.org/product/"

\* A product URL is BASE_PRODUCT_URL followed by a tail; f"{BASE_PRODUCT_URL}{code}"
ProductUrl(tail) == [base |-> BASE_PRODUCT_URL, tail |-> tail]

\* The loop of lines 97-103 from the i-th product of the response on; a
\* product is [url, code], each None when missing or empty.
RECURSIVE ListedUrls(_, _)
ListedUrls(products_json, i) ==
    IF i > Len(products_json) THEN <<>>
    ELSE LET p == products_json[i]
             url == IF IsNone(p.url) /\ ~IsNone(p.code)
                    THEN Some(ProductUrl(Val(p.code)))
                    ELSE p.url
         IN  (IF ~IsNone(url) THEN <<Val(url)>> ELSE <<>>)
             \o ListedUrls(products_json, i + 1)

\* _fetch_json_search_page: None when the request, the status check or the
\* JSON decoding raises (response = None), else the list of product URLs.
_fetch_json_search_page(response) ==
    IF IsNone(response) THEN None ELSE Some(ListedUrls(Val(response), 1))

\* ------------------------------------------------------------------------
\* save_to_csv
\* ------------------------------------------------------------------------

\* A CSV file is None (no such file) or the sequence of its rows; a row is
\* the header (the field names) or the values of one record.
HeaderRow == <<"header", FieldNames>>
DataRow(r) == <<"row", r>>

RECURSIVE DataRows(_, _)
DataRows(records, i) ==
    IF i > Len(records) THEN <<>>
    ELSE <<DataRow(records[i])>> \o DataRows(records, i + 1)

\* save_to_csv writing the header on every call.
save_to_csv_header_always(records, file, append) ==
    IF Len(records) = 0 THEN file
    ELSE LET file_exists == ~IsNone(file)
             mode == IF append /\ file_exists THEN "a" ELSE "w"
             kept == IF mode = "a" THEN Val(file) ELSE <<>>
         IN  Some(kept \o <<HeaderRow>> \o DataRows(records, 1))

\* save_to_csv (lines 658-672): the file after the call.  Mode "a" keeps the
\* rows of the file, mode "w" truncates it; the header is written unless the
\* call appends to a file that exists.
save_to_csv(records, file, append) ==
    IF Len(records) = 0 THEN file
    ELSE LET file_exists == ~IsNone(file)
             mode == IF append /\ file_exists THEN "a" ELSE "w"
             kept == IF mode = "a" THEN Val(file) ELSE <<>>
             header == IF ~append \/ ~file_exists THEN <<HeaderRow>> ELSE <<>>
         IN  Some(kept \o header \o DataRows(records, 1))

Headers(rows) == Cardinality({i \in 1..Len(rows) : rows[i][1] = "header"})
Rows(rows) == Cardinality({i \in 1..Len(rows) : rows[i][1] = "row"})

\* ------------------------------------------------------------------------
\* State
\* ------------------------------------------------------------------------
VARIABLES
    args,         \* scrape_snacks_dataset: the arguments of the call
    pc,           \* scrape_snacks_dataset: "idle", "loop", "items" or "done"
    page,         \* the page of page_iter the loop is at
    urls,         \* the URLs of the listing page being processed
    idx,          \* the position in urls of the next URL
    products,     \* the records collected so far
    seen_urls,    \* the URLs met so far
    returned,     \* None, or the list the call returned
    requests,     \* the listing fetches and the calls of scrape_product, in order
    last_response,\* the search response of the last listing fetch (None: it raised)
    last_doc,     \* the page of the last call of scrape_product (None: _get_soup raised)
    stopped,      \* why the page loop ended
    files,        \* the image files on disk
    image_call,   \* _download_image: None, or the last direct call and its result
    csv_file,     \* the CSV file
    csv_log,      \* save_to_csv: the calls made, each with the file before it
    energy_text,  \* _parse_energy: the text
    energy_ret,   \* _parse_energy: None, or the pair returned
    veg_doc,      \* _parse_veg_flags: the page
    veg_ret,      \* _parse_veg_flags: None, or the stages' results
    nutri_rows,   \* _parse_nutrition_table: the tr rows of the table
    nutri_idx,    \* _parse_nutrition_table: the position of the next row
    nutri_record, \* _parse_nutrition_table: the record being filled
    nutri_was_set \* the fields a row processed so far set to a number

orch_vars == <<args, pc, page, urls, idx, products, seen_urls, returned,
               requests, last_response, last_doc, stopped>>
image_vars == <<files, image_call>>
csv_vars == <<csv_file, csv_log>>
energy_vars == <<energy_text, energy_ret>>
veg_vars == <<veg_doc, veg_ret>>
nutri_vars == <<nutri_rows, nutri_idx, nutri_record, nutri_was_set>>
vars == <<orch_vars, image_vars, csv_vars, energy_vars, veg_vars, nutri_vars>>

\* ------------------------------------------------------------------------
\* Inputs
\* ------------------------------------------------------------------------

\* Heading texts, as get_text(" ", strip=True) gives them.
\* "Vegan"
H_Vegan == <<"V", "e", "g", "a", "n">>

\* "Non-vegan"
H_Non_vegan == <<"N", "o", "n", "-", "v", "e", "g", "a", "n">>

\* "Vegan status unknown"
H_Vegan_status_unknown == <<"V", "e", "g", "a", "n", " ", "s", "t", "a", "t", "u", "s", " ", "u", "n", "k", "n", "o", "w", "n">>

\* "Non-vegetarian"
H_Non_vegetarian == <<"N", "o", "n", "-", "v", "e", "g", "e", "t", "a", "r", "i", "a", "n">>

\* "Vegetarian status: yes"
H_Vegetarian_status_yes == <<"V", "e", "g", "e", "t", "a", "r", "i", "a", "n", " ", "s", "t", "a", "t", "u", "s", ":", " ", "y", "e", "s">>

\* "Vegetarian status"
H_Vegetarian_status == <<"V", "e", "g", "e", "t", "a", "r", "i", "a", "n", " ", "s", "t", "a", "t", "u", "s">>

\* "Palm oil free"
H_Palm_oil_free == <<"P", "a", "l", "m", " ", "o", "i", "l", " ", "f", "r", "e", "e">>

HeadingTexts ==
    {H_Vegan,
     H_Non_vegan,
     H_Vegan_status_unknown,
     H_Non_vegetarian,
     H_Vegetarian_status_yes,
     H_Vegetarian_status,
     H_Palm_oil_free}

\* Texts of #ordered_ingredients_list.
\* "vegan: no"
O_vegan_no == <<"v", "e", "g", "a", "n", ":", " ", "n", "o">>

\* "Sugar (Vegetarian: yes)"
O_Vegetarian_yes == <<"S", "u", "g", "a", "r", " ", "(", "V", "e", "g", "e", "t", "a", "r", "i", "a", "n", ":", " ", "y", "e", "s", ")">>

\* "vegan: unknown, vegetarian: no"
O_both == <<"v", "e", "g", "a", "n", ":", " ", "u", "n", "k", "n", "o", "w", "n", ",", " ", "v", "e", "g", "e", "t", "a", "r", "i", "a", "n", ":", " ", "n", "o">>

\* "sugar, salt"
O_sugar == <<"s", "u", "g", "a", "r", ",", " ", "s", "a", "l", "t">>

OrderedTexts ==
    {O_vegan_no,
     O_Vegetarian_yes,
     O_both,
     O_sugar}

\* The pieces energy texts are made of.
\* "2"
P_2 == <<"2">>

\* "380"
P_380 == <<"3", "8", "0">>

\* ","
P_comma == <<",">>

\* " "
P_space == <<" ">>

\* "kj"
P_kj == <<"k", "j">>

\* "kcal"
P_kcal == <<"k", "c", "a", "l">>

\* "("
P_paren == <<"(">>

EnergyPieces ==
    {P_2, P_380, P_comma, P_space, P_kj, P_kcal, P_paren}

\* "2,380 kj (571 kcal)", the example of the docstring of _parse_energy.
EnergyExample ==
    <<"2", ",", "3", "8", "0", " ", "k", "j", " ", "(", "5", "7", "1", " ", "k", "c", "a", "l", ")">>

\* The h4 elements a page of the veg-flag checks holds at most.
MaxHeadings == 2

\* The pieces an energy text holds at most.
MaxPieces == 4

\* All sequences over S of length at most n.
SeqsUpTo(S, n) == UNION {[1..k -> S] : k \in 0..n}

RECURSIVE Flatten(_)
Flatten(ss) == IF Len(ss) = 0 THEN <<>> ELSE Head(ss) \o Flatten(Tail(ss))

EnergyTexts ==
    {EnergyExample} \cup {Flatten(ps) : ps \in SeqsUpTo(EnergyPieces, MaxPieces)}

Panels == {"vegan", "vegetarian", "other"}

VegDocs ==
    [h4s : SeqsUpTo([panel : Panels, text : HeadingTexts], MaxHeadings),
     ordered : {None} \cup {Some(t) : t \in OrderedTexts}]

\* A page with none of the optional elements.
MinimalDoc ==
    [product_name |-> None, barcode |-> None, brand |-> None,
     quantity |-> None, packaging |-> None, stores |-> None,
     countries |-> None, origins |-> None, manufacturing_places |-> None,
     serving_size |-> None, ingredients_text |-> None, allergens |-> None,
     traces |-> None, table |-> None, nutriscore_letter |-> None,
     nova_group |-> None, main_image_url |-> None, categories |-> None,
     contains_palm_oil |-> None, h4s |-> <<>>, ordered |-> None,
     nutrient_level_fat |-> None, nutrient_level_saturated_fat |-> None,
     nutrient_level_sugars |-> None, nutrient_level_salt |-> None,
     additives |-> EmptyList, ecoscore_grade |-> None,
     ecoscore_score |-> None, carbon |-> None]

\* A page with a name, a barcode, an image, an energy row, a vegan heading
\* and an eco-score.
SampleDoc ==
    [MinimalDoc EXCEPT
       !.product_name = Some(<<"B", "a", "r">>),
       !.barcode = Some(<<"1", "2">>),
       !.main_image_url = Some([wellformed |-> TRUE, ext |-> ".png"]),
       !.table = Some(<<<<S_energy, EnergyExample>>>>),
       !.h4s = <<[panel |-> "vegan", text |-> H_Non_vegan]>>,
       !.ecoscore_grade = Some(<<"B">>),
       !.ecoscore_score = Some(IntFloat(72))]

Docs == {MinimalDoc, SampleDoc}

\* The listing pages a call may cover, the start pages it may be given and
\* the products a search response holds at most.
MaxPages == 2
MaxStart == 2
MaxListing == 2

Tails == {"a", "b"}

\* The products of a search response: with a url and a code, with a code
\* only, with neither.
SearchProducts ==
    {[url |-> Some(ProductUrl("a")), code |-> Some("a")],
     [url |-> None, code |-> Some("b")],
     [url |-> None, code |-> None]}

SearchResponses == SeqsUpTo(SearchProducts, MaxListing)

\* The arguments of scrape_snacks_dataset: those main passes (lines
\* 686-694: a start page, a number of pages, which argparse reads with
\* type=int and so may be zero or negative, download_images=True), and the
\* defaults (pages 1..max_pages, download_images=False).
ArgSets ==
    [start_page : 1..MaxStart,
     pages_to_scrape : {Some(n) : n \in (0 - 1)..MaxPages},
     max_pages : {MaxPages},
     download_images : {TRUE},
     images_dir : {"product_images"}]
    \cup
    [start_page : {1},
     pages_to_scrape : {None},
     max_pages : {MaxPages},
     download_images : {FALSE},
     images_dir : {"product_images"}]

\* What the environment does during one call of scrape_product.
ScrapeEnvs == [page : {None} \cup {Some(d) : d \in Docs}, dl : DownloadEnvs]

\* ------------------------------------------------------------------------
\* scrape_snacks_dataset
\* ------------------------------------------------------------------------

Max(a, b) == IF a >= b THEN a ELSE b

\* PageIter with end_page one page further.
PageIter_one_more(a) ==
    IF ~IsNone(a.pages_to_scrape)
    THEN [first |-> a.start_page,
          last |-> Max(a.start_page, a.start_page + Val(a.pages_to_scrape))]
    ELSE [first |-> 1, last |-> a.max_pages + 1]

\* page_iter (lines 616-620): the first and the last page of the range.
PageIter(a) ==
    IF ~IsNone(a.pages_to_scrape)
    THEN [first |-> a.start_page,
          last |-> Max(a.start_page, a.start_page + Val(a.pages_to_scrape) - 1)]
    ELSE [first |-> 1, last |-> a.max_pages]

\* An entry of requests: a listing fetch with the list it returned (None:
\* it raised), or a call of scrape_product with its outcome.
ListingRequest(p, result) ==
    [kind |-> "listing", page |-> p, url |-> None, result |-> result,
     raised |-> IsNone(result), record |-> None]

ProductRequest(p, url, out) ==
    [kind |-> "product", page |-> p, url |-> Some(url), result |-> None,
     raised |-> out.raised, record |-> out.record]

\* FetchFails with `continue` in place of the `break` of line 628.
FetchFails_continue ==
    /\ pc = "loop"
    /\ page <= PageIter(args).last
    /\ IsNone(_fetch_json_search_page(None))
    /\ requests' = Append(requests, ListingRequest(page, None))
    /\ last_response' = None
    /\ page' = page + 1
    /\ UNCHANGED <<args, pc, urls, idx, products, seen_urls, returned,
                   last_doc, stopped>>
    /\ UNCHANGED <<image_vars, csv_vars, energy_vars, veg_vars, nutri_vars>>

\* Lines 624-628: the listing fetch raises; the page loop is left and the
\* records collected so far are returned.
FetchFails ==
    /\ pc = "loop"
    /\ page <= PageIter(args).last
    /\ IsNone(_fetch_json_search_page(None))
    /\ requests' = Append(requests, ListingRequest(page, None))
    /\ last_response' = None
    /\ pc' = "done"
    /\ stopped' = "failed"
    /\ returned' = Some(products)
    /\ UNCHANGED <<args, page, urls, idx, products, seen_urls, last_doc>>
    /\ UNCHANGED <<image_vars, csv_vars, energy_vars, veg_vars, nutri_vars>>

\* FetchEmpty with `continue` in place of the `break` of line 632.
FetchEmpty_continue(response) ==
    /\ pc = "loop"
    /\ page <= PageIter(args).last
    /\ ~IsNone(_fetch_json_search_page(Some(response)))
    /\ Len(Val(_fetch_json_search_page(Some(response)))) = 0
    /\ requests' = Append(requests,
                          ListingRequest(page, _fetch_json_search_page(Some(response))))
    /\ last_response' = Some(response)
    /\ page' = page + 1
    /\ UNCHANGED <<args, pc, urls, idx, products, seen_urls, returned,
                   last_doc, stopped>>
    /\ UNCHANGED <<image_vars, csv_vars, energy_vars, veg_vars, nutri_vars>>

\* Lines 625, 630-632: the listing is empty; the page loop is left and the
\* records collected so far are returned.
FetchEmpty(response) ==
    /\ pc = "loop"
    /\ page <= PageIter(args).last
    /\ ~IsNone(_fetch_json_search_page(Some(response)))
    /\ Len(Val(_fetch_json_search_page(Some(response)))) = 0
    /\ requests' = Append(requests,
                          ListingRequest(page, _fetch_json_search_page(Some(response))))
    /\ last_response' = Some(response)
    /\ pc' = "done"
    /\ stopped' = "empty"
    /\ returned' = Some(products)
    /\ UNCHANGED <<args, page, urls, idx, products, seen_urls, last_doc>>
    /\ UNCHANGED <<image_vars, csv_vars, energy_vars, veg_vars, nutri_vars>>

\* Lines 625, 634: the listing holds URLs; the loop over them starts.
FetchUrls(response) ==
    /\ pc = "loop"
    /\ page <= PageIter(args).last
    /\ ~IsNone(_fetch_json_search_page(Some(response)))
    /\ Len(Val(_fetch_json_search_page(Some(response)))) > 0
    /\ requests' = Append(requests,
                          ListingRequest(page, _fetch_json_search_page(Some(response))))
    /\ last_response' = Some(response)
    /\ urls' = Val(_fetch_json_search_page(Some(response)))
    /\ idx' = 1
    /\ pc' = "items"
    /\ UNCHANGED <<args, page, products, seen_urls, returned, last_doc, stopped>>
    /\ UNCHANGED <<image_vars, csv_vars, energy_vars, veg_vars, nutri_vars>>

\* The position after the URL at idx: the next URL of the page, or the next
\* page.
NextPosition ==
    IF idx < Len(urls)
    THEN [pc |-> "items", page |-> page, idx |-> idx + 1]
    ELSE [pc |-> "loop", page |-> page + 1, idx |-> 1]

\* IsSeen without the set of seen URLs.
IsSeen_never(url, seen) == FALSE

\* Line 635: `url in seen_urls`.
IsSeen(url, seen) == url \in seen

\* Lines 635-636: a URL met before is passed over.
SkipSeen ==
    /\ pc = "items"
    /\ IsSeen(urls[idx], seen_urls)
    /\ pc' = NextPosition.pc
    /\ page' = NextPosition.page
    /\ idx' = NextPosition.idx
    /\ UNCHANGED <<args, urls, products, seen_urls, returned, requests,
                   last_response, last_doc, stopped>>
    /\ UNCHANGED <<image_vars, csv_vars, energy_vars, veg_vars, nutri_vars>>

\* AfterScrape with a `break` in the except clause of lines 643-644.
AfterScrape_break(out) ==
    IF out.raised
    THEN [pc |-> "loop", page |-> page + 1, idx |-> 1]
    ELSE NextPosition

\* The position after a call of scrape_product with outcome out: the except
\* clause of lines 643-644 only prints, and the loop goes on.
AfterScrape(out) == NextPosition

\* Lines 637-647 after the call of scrape_product with outcome out: the URL
\* is recorded as seen, and its record is appended unless the call raised.
Scraped(url, env, out) ==
    /\ seen_urls' = seen_urls \cup {url}
    /\ requests' = Append(requests, ProductRequest(page, url, out))
    /\ last_doc' = env.page
    /\ products' = IF out.raised THEN products
                   ELSE Append(products, Val(out.record))
    /\ files' = out.files
    /\ pc' = AfterScrape(out).pc
    /\ page' = AfterScrape(out).page
    /\ idx' = AfterScrape(out).idx

\* Lines 634-647: a new URL is scraped.
ScrapeItem(env) ==
    /\ pc = "items"
    /\ ~IsSeen(urls[idx], seen_urls)
    /\ Scraped(urls[idx], env,
               scrape_product(urls[idx], args.download_images,
                              args.images_dir, env, files))
    /\ UNCHANGED <<args, urls, returned, last_response, stopped>>
    /\ UNCHANGED <<image_call, csv_vars, energy_vars, veg_vars, nutri_vars>>

\* Line 649: page_iter is exhausted.
LoopExit ==
    /\ pc = "loop"
    /\ page > PageIter(args).last
    /\ pc' = "done"
    /\ stopped' = "exhausted"
    /\ returned' = Some(products)
    /\ UNCHANGED <<args, page, urls, idx, products, seen_urls, requests,
                   last_response, last_doc>>
    /\ UNCHANGED <<image_vars, csv_vars, energy_vars, veg_vars, nutri_vars>>

\* ------------------------------------------------------------------------
\* Direct calls of _download_image, save_to_csv, _parse_energy and
\* _parse_veg_flags
\* ------------------------------------------------------------------------

ImageUrls == [wellformed : BOOLEAN, ext : {"", ".png"}]

BaseNames == {<<>>, <<"a", " ", "b">>}

\* One call of _download_image.
DownloadImage(url, base_name, env) ==
    LET out == _download_image(url, "product_images", base_name, env, files)
    IN  /\ files' = out.files
        /\ image_call' = Some([url |-> url, base_name |-> base_name,
                               env |-> env, before |-> files,
                               raised |-> out.raised, ret |-> out.ret])
        /\ UNCHANGED <<orch_vars, csv_vars, energy_vars, veg_vars, nutri_vars>>

\* The calls of save_to_csv of one run of the model and the records a call
\* is given at most.
MaxCalls == 3
MaxRecords == 2

RecordLists ==
    {[i \in 1..n |-> ProductRecord(ProductUrl("a"))] : n \in 0..MaxRecords}

\* One call of save_to_csv.
SaveToCsv(records, append) ==
    /\ Len(csv_log) < MaxCalls
    /\ csv_file' = save_to_csv(records, csv_file, append)
    /\ csv_log' = Append(csv_log, [n |-> Len(records), append |-> append,
                                   before |-> csv_file])
    /\ UNCHANGED <<orch_vars, image_vars, energy_vars, veg_vars, nutri_vars>>

\* The call of _parse_energy on energy_text.
ParseEnergy ==
    /\ IsNone(energy_ret)
    /\ energy_ret' = Some(_parse_energy(energy_text))
    /\ UNCHANGED <<orch_vars, image_vars, csv_vars, energy_text, veg_vars, nutri_vars>>

\* The call of _parse_veg_flags on veg_doc.
ParseVegFlags ==
    /\ IsNone(veg_ret)
    /\ veg_ret' = Some(_parse_veg_flags(veg_doc))
    /\ UNCHANGED <<orch_vars, image_vars, csv_vars, energy_vars, veg_doc, nutri_vars>>

\* The rows a nutrition table holds at most.
MaxRows == 3

\* Rows of a nutrition table, each the texts of its td cells: energy rows
\* with the values "2 kj", "380 kcal" and "2 kj (380 kcal", fat rows with
\* the values "2" and "?", and a row with one cell.
NutritionRowTexts ==
    {<<<<"E", "n", "e", "r", "g", "y">>, P_2 \o P_space \o P_kj>>,
     <<<<"E", "n", "e", "r", "g", "y">>, P_380 \o P_space \o P_kcal>>,
     <<<<"E", "n", "e", "r", "g", "y">>,
       P_2 \o P_space \o P_kj \o P_space \o P_paren \o P_380 \o P_space \o P_kcal>>,
     <<<<"F", "a", "t">>, P_2>>,
     <<<<"F", "a", "t">>, <<"?">>>>,
     <<<<"F", "a", "t">>>>}

NutritionTables == SeqsUpTo(NutritionRowTexts, MaxRows)

\* One iteration of the loop of _parse_nutrition_table (lines 234-258).
ParseNutritionRow ==
    /\ nutri_idx <= Len(nutri_rows)
    /\ nutri_record' = NutritionStep(nutri_rows, nutri_idx, nutri_record)
    /\ nutri_was_set' =
           nutri_was_set
           \cup {f \in NutritionAssigned(nutri_rows, nutri_idx) :
                    ~IsNone(NutritionStep(nutri_rows, nutri_idx, nutri_record)[f])}
    /\ nutri_idx' = nutri_idx + 1
    /\ UNCHANGED <<orch_vars, image_vars, csv_vars, energy_vars, veg_vars,
                   nutri_rows>>

\* ------------------------------------------------------------------------
\* Specifications
\* ------------------------------------------------------------------------

OrchIdle ==
    /\ args = [start_page |-> 1, pages_to_scrape |-> None,
               max_pages |-> MaxPages, download_images |-> FALSE,
               images_dir |-> "product_images"]
    /\ pc = "idle"
    /\ page = 1
    /\ urls = <<>>
    /\ idx = 1
    /\ products = <<>>
    /\ seen_urls = {}
    /\ returned = None
    /\ requests = <<>>
    /\ last_response = None
    /\ last_doc = None
    /\ stopped = ""

ImageIdle == files = <<>> /\ image_call = None
CsvIdle == csv_file = None /\ csv_log = <<>>
EnergyIdle == energy_text = <<>> /\ energy_ret = None
VegIdle == veg_doc = [h4s |-> <<>>, ordered |-> None] /\ veg_ret = None
NutriIdle ==
    /\ nutri_rows = <<>>
    /\ nutri_idx = 1
    /\ nutri_record = ProductRecord(ProductUrl("a"))
    /\ nutri_was_set = {}

\* scrape_snacks_dataset is called: lines 613-620.
Init ==
    /\ args \in ArgSets
    /\ pc = "loop"
    /\ page = PageIter(args).first
    /\ urls = <<>>
    /\ idx = 1
    /\ products = <<>>
    /\ seen_urls = {}
    /\ returned = None
    /\ requests = <<>>
    /\ last_response = None
    /\ last_doc = None
    /\ stopped = ""
    /\ ImageIdle /\ CsvIdle /\ EnergyIdle /\ VegIdle /\ NutriIdle

Next ==
    \/ FetchFails
    \/ \E response \in SearchResponses : FetchEmpty(response)
    \/ \E response \in SearchResponses : FetchUrls(response)
    \/ SkipSeen
    \/ \E env \in ScrapeEnvs : ScrapeItem(env)
    \/ LoopExit

Spec == Init /\ [][Next]_vars

\* Calls of _download_image on an images directory that is empty at first.
InitImage ==
    OrchIdle /\ ImageIdle /\ CsvIdle /\ EnergyIdle /\ VegIdle /\ NutriIdle

NextImage ==
    \E url \in ImageUrls, base_name \in BaseNames, env \in DownloadEnvs :
        DownloadImage(url, base_name, env)

SpecImage == InitImage /\ [][NextImage]_vars

\* Calls of save_to_csv on one path, with no file there at first.
InitCsv ==
    /\ csv_file = None
    /\ csv_log = <<>>
    /\ OrchIdle /\ ImageIdle /\ EnergyIdle /\ VegIdle /\ NutriIdle

NextCsv ==
    \E records \in RecordLists, append \in BOOLEAN : SaveToCsv(records, append)

SpecCsv == InitCsv /\ [][NextCsv]_vars

\* _parse_energy on every text of EnergyTexts.
InitEnergy ==
    /\ energy_text \in EnergyTexts
    /\ energy_ret = None
    /\ OrchIdle /\ ImageIdle /\ CsvIdle /\ VegIdle /\ NutriIdle

NextEnergy == ParseEnergy

SpecEnergy == InitEnergy /\ [][NextEnergy]_vars

\* _parse_veg_flags on every page of VegDocs.
InitVeg ==
    /\ veg_doc \in VegDocs
    /\ veg_ret = None
    /\ OrchIdle /\ ImageIdle /\ CsvIdle /\ EnergyIdle /\ NutriIdle

NextVeg == ParseVegFlags

SpecVeg == InitVeg /\ [][NextVeg]_vars

\* _parse_nutrition_table, row by row, on every table of NutritionTables and
\* the record scrape_product passes (line 571: only url is set by then among
\* the fields the table rule writes).
InitNutri ==
    /\ nutri_rows \in NutritionTables
    /\ nutri_idx = 1
    /\ nutri_record = ProductRecord(ProductUrl("a"))
    /\ nutri_was_set = {}
    /\ OrchIdle /\ ImageIdle /\ CsvIdle /\ EnergyIdle /\ VegIdle

NextNutri == ParseNutritionRow

SpecNutri == InitNutri /\ [][NextNutri]_vars

\* ------------------------------------------------------------------------
\* Properties
\* ------------------------------------------------------------------------

\* The calls of scrape_product, in order.
IsProduct(r) == r.kind = "product"
Attempts == SelectSeq(requests, IsProduct)

\* The listing fetches that returned a list, in order.
IsListing(r) == r.kind = "listing" /\ ~r.raised
Listings == SelectSeq(requests, IsListing)

\* The records of the calls of scrape_product that returned, in call order.
RECURSIVE Successes(_, _)
Successes(as, i) ==
    IF i > Len(as) THEN <<>>
    ELSE (IF as[i].raised THEN <<>> ELSE <<Val(as[i].record)>>)
         \o Successes(as, i + 1)

\* s without the later occurrences of its elements.
RECURSIVE Dedup(_, _)
Dedup(s, i) ==
    IF i > Len(s) THEN <<>>
    ELSE (IF \E j \in 1..(i - 1) : s[j] = s[i] THEN <<>> ELSE <<s[i]>>)
         \o Dedup(s, i + 1)

RECURSIVE ConcatResults(_, _)
ConcatResults(ls, n) ==
    IF n = 0 THEN <<>> ELSE ConcatResults(ls, n - 1) \o Val(ls[n].result)

\* The URLs the loop of lines 634-647 has passed: those of the listing
\* pages done with, and those before idx of the page being processed.
ListedSoFar ==
    IF pc = "items"
    THEN ConcatResults(Listings, Len(Listings) - 1) \o SubSeq(urls, 1, idx - 1)
    ELSE ConcatResults(Listings, Len(Listings))

AttemptedUrls == [i \in 1..Len(Attempts) |-> Val(Attempts[i].url)]

\* C1: a fetched page with none of the optional elements gives the record
\* that holds the URL and nothing else, and scrape_product does not raise.
C1_MinimalPageGivesBlankRecord ==
    (Len(Attempts) >= 1 /\ last_doc = Some(MinimalDoc))
    => /\ ~Attempts[Len(Attempts)].raised
       /\ Attempts[Len(Attempts)].record
            = Some(ProductRecord(Val(Attempts[Len(Attempts)].url)))

\* C2: a product whose extraction raises adds no record and does not stop
\* the loop: every URL the loop has passed was attempted, once and in the
\* order listed, whatever the outcomes of the attempts before it, and the
\* collected (and returned) list holds exactly the records of the attempts
\* that succeeded, in the order of the attempts.
C2_FailureSkipsOnlyThatProduct ==
    /\ AttemptedUrls = Dedup(ListedSoFar, 1)
    /\ products = Successes(Attempts, 1)
    /\ ~IsNone(returned) => Val(returned) = products

\* C2 witness: the run is over; the first extraction raised, the next URL
\* of the same page was attempted after it, and a later listing page was
\* requested after both.
C2_Witness ==
    /\ pc = "done"
    /\ Len(Attempts) = 2
    /\ Attempts[1].raised
    /\ Attempts[2].page = Attempts[1].page
    /\ requests[Len(requests)].kind = "listing"
    /\ requests[Len(requests)].page > Attempts[1].page

\* C3: a listing fetch that raises is the last request of the run: no
\* listing page and no product page is requested after it, and the call has
\* returned, without raising, the records collected from the pages before.
C3_ListingFailureAborts ==
    \A k \in 1..Len(requests) :
        (requests[k].kind = "listing" /\ requests[k].raised)
        => /\ k = Len(requests)
           /\ pc = "done"
           /\ returned = Some(products)
           /\ products = Successes(Attempts, 1)
           /\ \A i \in 1..Len(Attempts) : Attempts[i].page < requests[k].page

\* C3 witness: the listing fetch of a later page raised after a product of
\* an earlier page had been attempted.
C3_Witness ==
    /\ stopped = "failed"
    /\ Len(Attempts) >= 1
    /\ requests[Len(requests)].kind = "listing"
    /\ requests[Len(requests)].raised
    /\ requests[Len(requests)].page > Attempts[1].page

NoUrlNoCode(response) ==
    \A i \in 1..Len(response) : IsNone(response[i].url) /\ IsNone(response[i].code)

\* C4: a search response with no products, or only products with neither
\* url nor code, gives the empty list; a listing fetch that returns the
\* empty list is the last request of the run, and the call has returned the
\* records collected so far.
C4_EmptyListingStops ==
    /\ (Len(Listings) >= 1 /\ ~IsNone(last_response)
        /\ NoUrlNoCode(Val(last_response)))
       => Listings[Len(Listings)].result = Some(<<>>)
    /\ \A k \in 1..Len(requests) :
           (requests[k].kind = "listing" /\ requests[k].result = Some(<<>>))
           => /\ k = Len(requests)
              /\ pc = "done"
              /\ returned = Some(products)
              /\ products = Successes(Attempts, 1)

\* C4 witness: after a product of an earlier page was attempted, a response
\* that holds only products with neither url nor code ended the run.
C4_Witness ==
    /\ stopped = "empty"
    /\ Len(Attempts) >= 1
    /\ Len(Val(last_response)) >= 1
    /\ requests[Len(requests)].result = Some(<<>>)

\* C5: no URL is extracted twice in a run, and no two records of the
\* collected list have the same url.
C5_EachUrlAtMostOnce ==
    /\ \A i, j \in 1..Len(Attempts) :
           Attempts[i].url = Attempts[j].url => i = j
    /\ \A i, j \in 1..Len(products) :
           products[i]["url"] = products[j]["url"] => i = j

\* C5 witness: the run is over, and a URL whose extraction raised was listed
\* again on the same page and on a later page.
C5_Witness ==
    /\ pc = "done"
    /\ Len(Listings) = 2
    /\ Len(Attempts) = 1
    /\ Attempts[1].raised
    /\ Val(Listings[1].result) = <<Val(Attempts[1].url), Val(Attempts[1].url)>>
    /\ Val(Listings[2].result) = <<Val(Attempts[1].url)>>

\* The CSV file after the i-th call of save_to_csv.
FileAfter(i) == IF i = Len(csv_log) THEN csv_file ELSE csv_log[i + 1].before

\* Two calls in a row, the i-th and the next, that append n >= 1 records each.
TwoAppends(i) ==
    /\ i + 1 <= Len(csv_log)
    /\ csv_log[i].append /\ csv_log[i + 1].append
    /\ csv_log[i].n >= 1
    /\ csv_log[i + 1].n = csv_log[i].n

\* C6 as stated: two appending calls of N >= 1 records each on an existing
\* file leave it with exactly one header row and 2*N data rows.
C6_TwoAppendsOnExistingFile ==
    \A i \in 1..Len(csv_log) :
        (TwoAppends(i) /\ ~IsNone(csv_log[i].before))
        => /\ Headers(Val(FileAfter(i + 1))) = 1
           /\ Rows(Val(FileAfter(i + 1))) = 2 * csv_log[i].n

\* C6 amended: two appending calls of N >= 1 records each leave exactly one
\* header row and 2*N data rows when there was no file before the first
\* call; to a file that existed they add 2*N data rows and no header row.
C6_TwoAppendsAddRows ==
    \A i \in 1..Len(csv_log) :
        TwoAppends(i)
        => IF IsNone(csv_log[i].before)
           THEN /\ Headers(Val(FileAfter(i + 1))) = 1
                /\ Rows(Val(FileAfter(i + 1))) = 2 * csv_log[i].n
           ELSE /\ Headers(Val(FileAfter(i + 1)))
                     = Headers(Val(csv_log[i].before))
                /\ Rows(Val(FileAfter(i + 1)))
                     = Rows(Val(csv_log[i].before)) + 2 * csv_log[i].n

\* C6 witness: two appending calls were made on a file that an earlier call
\* had written with data rows.
C6_Witness ==
    /\ Len(csv_log) = 3
    /\ TwoAppends(2)
    /\ ~IsNone(csv_log[2].before)
    /\ Rows(Val(csv_log[2].before)) >= 1
    /\ Headers(Val(csv_file)) = 1

\* C7: _parse_energy("2,380 kj (571 kcal)") is (2380.0, 571.0).
C7_EnergyExample ==
    (energy_text = EnergyExample /\ ~IsNone(energy_ret))
    => Val(energy_ret) = <<Some(IntFloat(2380)), Some(IntFloat(571))>>

\* C8: _download_image raises nothing, and returns None when a step of it
\* fails (the URL being one that urlparse accepts).
C8_DownloadSwallowsAllErrors ==
    (~IsNone(image_call) /\ Val(image_call).url.wellformed)
    => /\ ~Val(image_call).raised
       /\ Val(image_call).env.fail = "makedirs" => IsNone(Val(image_call).ret)

Recognised == {S_yes, S_no, S_unknown}

\* The statuses after the panel stage and after the heading scan.
AfterPanels == VegPanels(veg_doc)
AfterHeadings == VegHeadings(veg_doc, AfterPanels)

\* C9 as stated: each status is yes, no, unknown or None.
C9_StatusIsEnum ==
    ~IsNone(veg_ret)
    => \A k \in 1..2 :
           IsNone(Val(veg_ret)[k]) \/ Val(Val(veg_ret)[k]) \in Recognised

\* v is the stripped text of a heading of the page, with or without the
\* status phrase, and holds none of the recognised words.
PassedThrough(v) ==
    /\ ~Contains(Lower(v), S_unknown)
    /\ ~Contains(Lower(v), S_vegetarian)
    /\ ~Contains(Lower(v), S_vegan)
    /\ \E i \in 1..Len(veg_doc.h4s) :
           \/ v = Strip(veg_doc.h4s[i].text)
           \/ v = Strip(Replace(veg_doc.h4s[i].text, S_Vegetarian_status, <<>>))
           \/ v = Strip(Replace(veg_doc.h4s[i].text, S_Vegan_status, <<>>))

\* C9 amended: each status is None, or yes, no or unknown, or, when the
\* panel stage or the heading scan resolved it from a heading text that
\* holds none of the words unknown, vegetarian and vegan, that text
\* stripped; a status the ordered-ingredients stage resolved is recognised.
C9_StatusIsEnumOrHeadingText ==
    ~IsNone(veg_ret)
    => /\ LET s == Val(veg_ret)[1]
          IN  \/ IsNone(s)
              \/ Val(s) \in Recognised
              \/ s = AfterHeadings.veg /\ PassedThrough(Val(s))
       /\ LET s == Val(veg_ret)[2]
          IN  \/ IsNone(s)
              \/ Val(s) \in Recognised
              \/ s = AfterHeadings.vegan /\ PassedThrough(Val(s))

\* C9 witness: a status is a heading text that is none of yes, no, unknown.
C9_Witness ==
    /\ ~IsNone(veg_ret)
    /\ ~IsNone(Val(veg_ret)[2])
    /\ Val(Val(veg_ret)[2]) \notin Recognised
    /\ ~IsNone(Val(veg_ret)[1])
    /\ Val(Val(veg_ret)[1]) \in Recognised

\* C10: a status the panels and the heading scan left unresolved is the X
\* of "vegan: X" (resp. "vegetarian: X") of the ordered ingredients list,
\* and a status an earlier stage resolved is returned as that stage set it.
C10_OrderedListGivesX ==
    ~IsNone(veg_ret)
    => /\ (IsNone(AfterHeadings.vegan) /\ ~IsNone(veg_doc.ordered)
           /\ ~IsNone(StatusSearch(Lower(Val(veg_doc.ordered)), S_vegan_colon)))
          => Val(veg_ret)[2]
               = Some(Val(StatusSearch(Lower(Val(veg_doc.ordered)),
                                       S_vegan_colon)).value)
       /\ (IsNone(AfterHeadings.veg) /\ ~IsNone(veg_doc.ordered)
           /\ ~IsNone(StatusSearch(Lower(Val(veg_doc.ordered)), S_vegetarian_colon)))
          => Val(veg_ret)[1]
               = Some(Val(StatusSearch(Lower(Val(veg_doc.ordered)),
                                       S_vegetarian_colon)).value)
       /\ ~IsNone(AfterPanels.veg) => Val(veg_ret)[1] = AfterPanels.veg
       /\ ~IsNone(AfterPanels.vegan) => Val(veg_ret)[2] = AfterPanels.vegan
       /\ ~IsNone(AfterHeadings.veg) => Val(veg_ret)[1] = AfterHeadings.veg
       /\ ~IsNone(AfterHeadings.vegan) => Val(veg_ret)[2] = AfterHeadings.vegan

\* The pages of the listing fetches of the run, in order.
IsListingFetch(r) == r.kind = "listing"
ListingFetches == SelectSeq(requests, IsListingFetch)
ListingPages == [i \in 1..Len(ListingFetches) |-> ListingFetches[i].page]

StrictlyIncreasingFrom(ps, s) ==
    /\ Len(ps) >= 1 => ps[1] = s
    /\ \A i \in 1..(Len(ps) - 1) : ps[i] < ps[i + 1]

\* C11 as stated: given start page s and a number n >= 0 of pages to
\* scrape, the listing pages are requested in strictly increasing order
\* starting at s, none is outside s..s+n-1, and at most n listing requests
\* are made.
C11_PagesWithinRange ==
    (~IsNone(args.pages_to_scrape) /\ Val(args.pages_to_scrape) >= 0)
    => /\ StrictlyIncreasingFrom(ListingPages, args.start_page)
       /\ \A i \in 1..Len(ListingPages) :
              ListingPages[i] \in
                  args.start_page..(args.start_page + Val(args.pages_to_scrape) - 1)
       /\ Len(ListingPages) <= Val(args.pages_to_scrape)

\* C11 amended: for n >= 1 the listing pages are requested in strictly
\* increasing order starting at s, none is outside s..s+n-1, and at most n
\* listing requests are made; for n <= 0 the range is clamped to the start
\* page: no page but s is requested, and a finished run has requested page s
\* exactly once.
C11_PagesWithinClampedRange ==
    ~IsNone(args.pages_to_scrape)
    => /\ StrictlyIncreasingFrom(ListingPages, args.start_page)
       /\ Val(args.pages_to_scrape) >= 1
          => /\ \A i \in 1..Len(ListingPages) :
                    ListingPages[i] \in
                        args.start_page..(args.start_page + Val(args.pages_to_scrape) - 1)
             /\ Len(ListingPages) <= Val(args.pages_to_scrape)
       /\ Val(args.pages_to_scrape) <= 0
          => /\ \A i \in 1..Len(ListingPages) : ListingPages[i] = args.start_page
             /\ Len(ListingPages) <= 1
             /\ pc = "done" => Len(ListingPages) = 1

\* C11 witness: a finished run that was given a start page after the first
\* and several pages to scrape, and requested every page of its range.
C11_Witness ==
    /\ pc = "done"
    /\ ~IsNone(args.pages_to_scrape)
    /\ args.start_page >= 2
    /\ Val(args.pages_to_scrape) >= 2
    /\ Len(ListingPages) = Val(args.pages_to_scrape)
    /\ ListingPages[Len(ListingPages)]
         = args.start_page + Val(args.pages_to_scrape) - 1

\* C12: whenever a call of _download_image returns a path, the file at that
\* path holds the complete image body, also when the call found the file
\* present and skipped the download.
C12_ReturnedPathHoldsCompleteBody ==
    (~IsNone(image_call) /\ ~Val(image_call).raised /\ ~IsNone(Val(image_call).ret))
    => /\ Val(Val(image_call).ret) \in DOMAIN files
       /\ files[Val(Val(image_call).ret)] = BodyChunks

\* Row r is an energy row whose value cell holds a quantity with the unit.
EnergyRowHas(r, unit) ==
    /\ Len(r) >= 2
    /\ Contains(Lower(r[1]), S_energy)
    /\ ~IsNone(QuantitySearch(r[2], unit))

\* C13: while the rows of the nutrition table are processed, a field that
\* an earlier row set to a number is not null; after the last row
\* energy_kj_100g (resp. energy_kcal_100g) is not null when the value cell
\* of some energy row held a kJ (resp. kcal) quantity.
C13_NutrientNeverResetToNull ==
    /\ \A f \in nutri_was_set : ~IsNone(nutri_record[f])
    /\ nutri_idx > Len(nutri_rows)
       => /\ (\E i \in 1..Len(nutri_rows) : EnergyRowHas(nutri_rows[i], "kj"))
             => ~IsNone(nutri_record["energy_kj_100g"])
          /\ (\E i \in 1..Len(nutri_rows) : EnergyRowHas(nutri_rows[i], "kcal"))
             => ~IsNone(nutri_record["energy_kcal_100g"])

====
